---- MODULE Spec2Model ----
(***************************************************************************)
(* Path ORAM (oram/src/oram.rs, oram/src/bucket.rs).                       *)
(*                                                                         *)
(* A PathORAM instance is the struct { tree, position_map, stash,          *)
(* capacity, tree_height }.  The two operations are PathORAM::new and      *)
(* PathORAM::access.  Both draw leaves from a random generator and both    *)
(* iterate over std HashMaps, whose iteration order is unspecified; the    *)
(* model takes every leaf draw and every iteration order.                  *)
(*                                                                         *)
(* Option<u32> is modelled as a sequence: None is << >>, Some(v) is <<v>>. *)
(* HashMap<u32, Block> is modelled as a function from its keys to Block    *)
(* records.  A panic (unwrap on None, index out of range) ends the run.    *)
(***************************************************************************)
EXTENDS Integers, Sequences, FiniteSets, TLC

\* ------------------------------------------------------------------ bounds
MaxBlocks == 2
MaxCapacity == 2
MaxData == 1
MaxBucketInput == 3
WarmupAccesses == 1
MeasuredAccesses == 3
MaxStash == 3
MaxHeight == 4
MaxCalls == 1

\* ------------------------------------------------------------------ state
VARIABLES
    parallel,       \* build: is the cargo feature "parallel" enabled
    status,         \* "uninit" | "ready" | "panicked"
    tree,           \* PathORAM.tree: bucket index -> Bucket
    position_map,   \* PathORAM.position_map: block id -> leaf
    stash,          \* PathORAM.stash: block id -> Block
    capacity,       \* PathORAM.capacity
    tree_height,    \* PathORAM.tree_height
    last,           \* the last call on the instance: arguments and outcome
    written,        \* history: block id -> payload of the most recent write
    last_read,      \* history: block id -> what the latest read of it returned,
                    \*          None once it is written again
    bucket,         \* a Bucket used on its own through its public methods
    bucket_last,    \* the last call on that Bucket: arguments and outcome
    bench,          \* run_oram_benchmark: its position and local variables
    inflight,       \* accesses run phase by phase: caller -> position and locals
    index_call      \* the last call of get_bucket_index made on its own

vars == <<parallel, status, tree, position_map, stash, capacity, tree_height,
          last, written, last_read, bucket, bucket_last, bench, inflight,
          index_call>>

oram_vars == <<parallel, status, tree, position_map, stash, capacity,
               tree_height, last, written, last_read>>

bucket_vars == <<bucket, bucket_last>>

aux_vars == <<bench, inflight, index_call>>

\* ------------------------------------------------------------------ values
None == << >>

Some(v) == <<v>>

EmptyMap == << >>

MapInsert(m, k, v) == [x \in DOMAIN m \cup {k} |-> IF x = k THEN v ELSE m[x]]

MapRemove(m, k) == [x \in DOMAIN m \ {k} |-> m[x]]

MapGet(m, k) == IF k \in DOMAIN m THEN Some(m[k]) ELSE None

MapValues(m) == {m[k] : k \in DOMAIN m}

Block(block_id, data) == [block_id |-> block_id, data |-> data]

DummyBlock == Block(0, 0)

\* ------------------------------------------------------------------ Bucket
BucketNew(cap) == [blocks |-> EmptyMap, capacity |-> cap]

\* Bucket::add_block: the results it can produce, one per key the iterator
\* may yield first; the empty set when keys().next().unwrap() panics.
add_block(b, block) ==
    IF Cardinality(DOMAIN b.blocks) >= b.capacity
    THEN {[b EXCEPT !.blocks = MapInsert(MapRemove(b.blocks, first_key), block.block_id, block)] :
             first_key \in DOMAIN b.blocks}
    ELSE {[b EXCEPT !.blocks = MapInsert(b.blocks, block.block_id, block)]}

get_block(b, block_id) == MapGet(b.blocks, block_id)

get_all_blocks(b) == MapValues(b.blocks)

\* blocks.insert for each element of a sequence, in order: a later block
\* with the same id replaces an earlier one.
RECURSIVE InsertAll(_, _)
InsertAll(m, blocks) ==
    IF blocks = << >> THEN m
    ELSE InsertAll(MapInsert(m, Head(blocks).block_id, Head(blocks)), Tail(blocks))

\* Mutant: one block fewer than the capacity is kept.
TakeOneLess(s, n) == IF Len(s) <= n - 1 THEN s ELSE SubSeq(s, 1, n - 1)

Take(s, n) == IF Len(s) <= n THEN s ELSE SubSeq(s, 1, n)

replace_blocks(b, new_blocks) ==
    [b EXCEPT !.blocks = InsertAll(EmptyMap, Take(new_blocks, b.capacity))]

\* ---------------------------------------------------------------- PathORAM
Min(a, b) == IF a <= b THEN a ELSE b

\* (num_blocks as f64).log2().ceil() as u32; log2(0) is -inf and the cast
\* of -inf to u32 saturates to 0.
RECURSIVE CeilLog2From(_, _)
CeilLog2From(n, l) == IF 2^l >= n THEN l ELSE CeilLog2From(n, l + 1)

TreeHeight(num_blocks) == CeilLog2From(num_blocks, 0)

NumBuckets(height) == 2^(height + 1) - 1

Leaves(height) == 0 .. (2^height - 1)

\* Mutant: the leaf is shifted by the level, not by the levels below it.
get_bucket_index_shift_level(o, leaf, level) ==
    LET path == leaf \div 2^level
    IN  (2^level - 1) + path

\* Mutant: the leaf is not shifted at all.
get_bucket_index_no_shift(o, leaf, level) == (2^level - 1) + leaf

get_bucket_index(o, leaf, level) ==
    LET path == leaf \div 2^(o.tree_height - level)
    IN  (2^level - 1) + path

\* The result of one run of access so far: the instance and the bucket
\* indices it has read and rewritten, in order.
Run(o, touched) == [oram |-> o, touched |-> touched]

\* Lines 71-75: every non-dummy block of the bucket is inserted in the stash.
StashInsertReal(s, blocks) ==
    LET real == {b \in blocks : b.block_id # 0}
        ids  == {b.block_id : b \in real}
    IN  [x \in DOMAIN s \cup ids |->
            IF x \in ids THEN CHOOSE b \in real : b.block_id = x ELSE s[x]]

\* Mutant: the read takes the blocks out of the buckets it visits.
RECURSIVE read_path_take(_, _, _)
read_path_take(r, old_position, level) ==
    IF level > r.oram.tree_height THEN r
    ELSE LET o     == r.oram
             index == get_bucket_index(o, old_position, level)
             s     == StashInsertReal(o.stash, get_all_blocks(o.tree[index]))
         IN  read_path_take(
                 Run([o EXCEPT !.stash = s,
                               !.tree[index] = BucketNew(o.tree[index].capacity)],
                     Append(r.touched, <<"read", index>>)),
                 old_position, level + 1)

\* Step 2: read the buckets of the path of old_position, root first.
RECURSIVE read_path(_, _, _)
read_path(r, old_position, level) ==
    IF level > r.oram.tree_height THEN r
    ELSE LET o     == r.oram
             index == get_bucket_index(o, old_position, level)
             s     == StashInsertReal(o.stash, get_all_blocks(o.tree[index]))
         IN  read_path(Run([o EXCEPT !.stash = s],
                           Append(r.touched, <<"read", index>>)),
                       old_position, level + 1)

\* Step 3: the data returned is read from the stash before a write
\* replaces the block.
stash_data(s, block_id) ==
    IF block_id \in DOMAIN s THEN Some(s[block_id].data) ELSE None

\* Mutant: a write inserts the block only when the stash has none for the id.
stash_update_if_absent(s, op, block_id, new_data) ==
    IF op = "write" /\ block_id \notin DOMAIN s
    THEN MapInsert(s, block_id, Block(block_id, new_data[1]))
    ELSE s

stash_update(s, op, block_id, new_data) ==
    IF op = "write" THEN MapInsert(s, block_id, Block(block_id, new_data[1]))
    ELSE s

\* Mutant: the data returned is read after the write has replaced the block.
retrieve_after_update(s, op, block_id, new_data) ==
    [data |-> stash_data(stash_update(s, op, block_id, new_data), block_id),
     stash |-> stash_update(s, op, block_id, new_data)]

retrieve_or_update(s, op, block_id, new_data) ==
    [data |-> stash_data(s, block_id),
     stash |-> stash_update(s, op, block_id, new_data)]

\* Mutant: the block's bucket is computed at the leaf level, whatever the
\* level being rewritten.
EligibleAtLeafLevel(o, index, level) ==
    {k \in DOMAIN o.stash :
        /\ o.stash[k].block_id \in DOMAIN o.position_map
        /\ get_bucket_index(o, o.position_map[o.stash[k].block_id],
                            o.tree_height) = index}

\* Lines 99-109: the keys of the stash blocks whose leaf passes through the
\* bucket `index` at `level`.
Eligible(o, index, level) ==
    {k \in DOMAIN o.stash :
        /\ o.stash[k].block_id \in DOMAIN o.position_map
        /\ get_bucket_index(o, o.position_map[o.stash[k].block_id], level) = index}

\* Mutant: the loop stops when the length exceeds the capacity (> for >=).
SelectedCountOffByOne(n, cap) == Min(n, cap + 1)

\* The loop pushes a block and only then compares the length with the
\* capacity, so it stops after min(n, capacity) pushes, and after one push
\* when the capacity is 0.
SelectedCount(n, cap) ==
    IF n = 0 THEN 0 ELSE IF cap = 0 THEN 1 ELSE Min(n, cap)

\* The vectors selected_blocks can be: stash.values() yields the blocks in
\* any order.
select_blocks(o, index, level) ==
    LET E == Eligible(o, index, level)
        k == SelectedCount(Cardinality(E), o.capacity)
    IN  {[i \in 1..k |-> o.stash[f[i]]] :
            f \in {g \in [1..k -> E] : \A i, j \in 1..k : i # j => g[i] # g[j]}}

\* Mutant: the selected blocks are not removed from the stash.
RemoveNone(s, blocks) == s

RECURSIVE RemoveAll(_, _)
RemoveAll(s, blocks) ==
    IF blocks = << >> THEN s
    ELSE RemoveAll(MapRemove(s, Head(blocks).block_id), Tail(blocks))

\* Lines 116-119.
pad_blocks(selected, cap) ==
    IF Len(selected) < cap
    THEN selected \o [i \in 1..(cap - Len(selected)) |-> DummyBlock]
    ELSE selected

\* Mutant: a bucket for which no block is selected is not rewritten.
write_level_skip_empty(r, old_position, level) ==
    LET o     == r.oram
        index == get_bucket_index(o, old_position, level)
    IN  IF Eligible(o, index, level) = {} THEN {r}
        ELSE {Run([o EXCEPT !.stash = RemoveAll(o.stash, selected),
                            !.tree[index] = replace_blocks(o.tree[index],
                                                pad_blocks(selected, o.capacity))],
                  Append(r.touched, <<"write", index>>)) :
                 selected \in select_blocks(o, index, level)}

\* One iteration of the write-back loop (lines 95-122).
write_level(r, old_position, level) ==
    LET o     == r.oram
        index == get_bucket_index(o, old_position, level)
    IN  {Run([o EXCEPT !.stash = RemoveAll(o.stash, selected),
                       !.tree[index] = replace_blocks(o.tree[index],
                                           pad_blocks(selected, o.capacity))],
             Append(r.touched, <<"write", index>>)) :
            selected \in select_blocks(o, index, level)}

\* Step 4: rewrite the path of old_position, leaf first.
RECURSIVE write_back(_, _, _)
write_back(r, old_position, level) ==
    IF level < 0 THEN {r}
    ELSE UNION {write_back(r2, old_position, level - 1) :
                   r2 \in write_level(r, old_position, level)}

Outcome(result, r, old_position, data) ==
    [result |-> result, oram |-> r.oram, touched |-> r.touched,
     old_position |-> old_position, data |-> data]

\* Mutant: the position map is updated after the write-back, not before.
access_position_last(o, op, block_id, new_data) ==
    IF block_id \notin DOMAIN o.position_map
    THEN {Outcome("panicked", Run(o, << >>), 0, None)}
    ELSE LET old_position == o.position_map[block_id]
             r1 == read_path(Run(o, << >>), old_position, 0)
         IN  IF op = "write" /\ new_data = None
             THEN {Outcome("panicked", r1, old_position, None)}
             ELSE LET step3 == retrieve_or_update(r1.oram.stash, op, block_id, new_data)
                      o2    == [r1.oram EXCEPT !.stash = step3.stash]
                  IN  {Outcome("returned",
                               Run([r3.oram EXCEPT !.position_map =
                                       MapInsert(@, block_id, new_position)],
                                   r3.touched),
                               old_position, step3.data) :
                          r3 \in write_back(Run(o2, r1.touched), old_position,
                                            o.tree_height),
                          new_position \in Leaves(o.tree_height)}

\* Mutant: the new leaf is drawn among the leaves other than the old one.
access_other_leaf(o, op, block_id, new_data) ==
    IF block_id \notin DOMAIN o.position_map
    THEN {Outcome("panicked", Run(o, << >>), 0, None)}
    ELSE LET old_position == o.position_map[block_id]
             r1 == read_path(Run(o, << >>), old_position, 0)
         IN  IF op = "write" /\ new_data = None
             THEN {Outcome("panicked", r1, old_position, None)}
             ELSE LET step3 == retrieve_or_update(r1.oram.stash, op, block_id, new_data)
                  IN  UNION {
                        LET o2 == [r1.oram EXCEPT
                                     !.stash = step3.stash,
                                     !.position_map = MapInsert(@, block_id, new_position)]
                        IN  {Outcome("returned", r3, old_position, step3.data) :
                                r3 \in write_back(Run(o2, r1.touched), old_position,
                                                  o.tree_height)}
                        : new_position \in Leaves(o.tree_height) \ {old_position}}

\* PathORAM::access: every outcome it can have on the instance o.
access(o, op, block_id, new_data) ==
    IF block_id \notin DOMAIN o.position_map
    THEN {Outcome("panicked", Run(o, << >>), 0, None)}
    ELSE LET old_position == o.position_map[block_id]
             r1 == read_path(Run(o, << >>), old_position, 0)
         IN  IF op = "write" /\ new_data = None
             THEN {Outcome("panicked", r1, old_position, None)}
             ELSE LET step3 == retrieve_or_update(r1.oram.stash, op, block_id, new_data)
                  IN  UNION {
                        LET o2 == [r1.oram EXCEPT
                                     !.stash = step3.stash,
                                     !.position_map = MapInsert(@, block_id, new_position)]
                        IN  {Outcome("returned", r3, old_position, step3.data) :
                                r3 \in write_back(Run(o2, r1.touched), old_position,
                                                  o.tree_height)}
                        : new_position \in Leaves(o.tree_height)}

\* Step 2 of new: a bucket after `n` calls of add_block with a dummy block.
RECURSIVE FillDummies(_, _)
FillDummies(bs, n) ==
    IF n = 0 THEN bs
    ELSE FillDummies(UNION {add_block(b, DummyBlock) : b \in bs}, n - 1)

\* Steps 2 and 3 of new.  Both loops are compiled only under the feature
\* "parallel"; without it the tree and the position map stay empty.
new_tree(par, height, cap) ==
    IF par
    THEN [0 .. (NumBuckets(height) - 1) -> FillDummies({BucketNew(cap)}, cap)]
    ELSE {<< >>}

new_position_map(par, height, num_blocks) ==
    IF par THEN [1..num_blocks -> Leaves(height)] ELSE {EmptyMap}

\* Mutant: the loop runs over 1..num_blocks exclusive of num_blocks.
RECURSIVE bootstrap_exclusive(_, _, _)
bootstrap_exclusive(outs, block_id, num_blocks) ==
    IF block_id >= num_blocks THEN outs
    ELSE bootstrap_exclusive(
            UNION {IF out.result = "panicked" THEN {out}
                   ELSE access(out.oram, "write", block_id, Some(0)) : out \in outs},
            block_id + 1, num_blocks)

\* Lines 53-55: the writes of blocks block_id..num_blocks, from each of the
\* outcomes `outs` reached so far; a panic ends the loop.
RECURSIVE bootstrap(_, _, _)
bootstrap(outs, block_id, num_blocks) ==
    IF block_id > num_blocks THEN outs
    ELSE bootstrap(
            UNION {IF out.result = "panicked" THEN {out}
                   ELSE access(out.oram, "write", block_id, Some(0)) : out \in outs},
            block_id + 1, num_blocks)

\* PathORAM::new: every outcome it can have.
new(par, num_blocks, cap) ==
    LET height == TreeHeight(num_blocks)
        start  == {[tree |-> t, position_map |-> pm, stash |-> EmptyMap,
                    capacity |-> cap, tree_height |-> height] :
                      t \in new_tree(par, height, cap),
                      pm \in new_position_map(par, height, num_blocks)}
    IN  bootstrap({Outcome("returned", Run(o, << >>), 0, None) : o \in start},
                  1, num_blocks)

\* ---------------------------------------------------------------- actions
Instance ==
    [tree |-> tree, position_map |-> position_map, stash |-> stash,
     capacity |-> capacity, tree_height |-> tree_height]

\* The payload held for block_id across the stash and every bucket, by a
\* scan of the storage: Some(d) when it is held once, None otherwise.
Stored(o, block_id) ==
    LET inStash == IF block_id \in DOMAIN o.stash
                   THEN {<<-1, o.stash[block_id].data>>} ELSE {}
        inTree  == {<<i, o.tree[i].blocks[block_id].data>> :
                       i \in {j \in DOMAIN o.tree : block_id \in DOMAIN o.tree[j].blocks}}
        held    == inStash \cup inTree
    IN  IF Cardinality(held) = 1 THEN Some((CHOOSE h \in held : TRUE)[2]) ELSE None

NoCall ==
    [call |-> "none", num_blocks |-> 0, capacity |-> 0, op |-> "none",
     block_id |-> 0, new_data |-> None, old_position |-> 0, data |-> None,
     before |-> None, prev_read |-> None, touched |-> << >>,
     result |-> "none"]

\* The parts of the state a specification does not use stay as they start.
NoBench ==
    [pc |-> "idle", access_count |-> 0, stash_sizes |-> << >>,
     observed |-> << >>, stash_data |-> << >>, file |-> << >>]

NoIndexCall == [height |-> 0, leaf |-> 0, level |-> 0, index |-> 0, called |-> FALSE]

AuxIdle ==
    /\ bench = NoBench
    /\ inflight = << >>
    /\ index_call = NoIndexCall

Init ==
    /\ AuxIdle
    /\ parallel \in BOOLEAN
    /\ status = "uninit"
    /\ tree = << >>
    /\ position_map = EmptyMap
    /\ stash = EmptyMap
    /\ capacity = 0
    /\ tree_height = 0
    /\ last = NoCall
    /\ written = EmptyMap
    /\ last_read = EmptyMap
    /\ bucket = BucketNew(0)
    /\ bucket_last = [call |-> "none", blocks |-> << >>, result |-> "none"]

New(num_blocks, cap) ==
    /\ status = "uninit"
    /\ \E out \in new(parallel, num_blocks, cap) :
          /\ last' = [NoCall EXCEPT !.call = "new", !.num_blocks = num_blocks,
                                    !.capacity = cap, !.result = out.result]
          /\ IF out.result = "returned"
             THEN /\ status' = "ready"
                  /\ tree' = out.oram.tree
                  /\ position_map' = out.oram.position_map
                  /\ stash' = out.oram.stash
                  /\ capacity' = out.oram.capacity
                  /\ tree_height' = out.oram.tree_height
                  /\ written' = [id \in 1..num_blocks |-> 0]
                  /\ last_read' = [id \in 1..num_blocks |-> None]
             ELSE /\ status' = "panicked"
                  /\ UNCHANGED <<tree, position_map, stash, capacity,
                                 tree_height, written, last_read>>
    /\ UNCHANGED <<parallel, bucket_vars, aux_vars>>

\* A panic unwinds through the caller, which drops the instance: nothing of
\* it can be observed afterwards.
Access(op, block_id, new_data) ==
    /\ status = "ready"
    /\ \E out \in access(Instance, op, block_id, new_data) :
          IF out.result = "returned"
          THEN /\ status' = "ready"
               /\ last' = [last EXCEPT !.call = "access", !.op = op,
                                       !.block_id = block_id,
                                       !.new_data = new_data,
                                       !.old_position = position_map[block_id],
                                       !.data = out.data,
                                       !.before = Stored(Instance, block_id),
                                       !.prev_read = last_read[block_id],
                                       !.touched = out.touched,
                                       !.result = out.result]
               /\ tree' = out.oram.tree
               /\ position_map' = out.oram.position_map
               /\ stash' = out.oram.stash
               /\ written' = IF op = "write"
                             THEN MapInsert(written, block_id, new_data[1])
                             ELSE written
               /\ last_read' = [last_read EXCEPT ![block_id] =
                                   IF op = "write" THEN None ELSE out.data]
               /\ UNCHANGED <<capacity, tree_height>>
          ELSE /\ status' = "panicked"
               /\ last' = [NoCall EXCEPT !.call = "access",
                                         !.num_blocks = last.num_blocks,
                                         !.capacity = last.capacity,
                                         !.op = op, !.block_id = block_id,
                                         !.new_data = new_data,
                                         !.result = out.result]
               /\ tree' = << >>
               /\ position_map' = EmptyMap
               /\ stash' = EmptyMap
               /\ capacity' = 0
               /\ tree_height' = 0
               /\ written' = EmptyMap
               /\ last_read' = EmptyMap
    /\ UNCHANGED <<parallel, bucket_vars, aux_vars>>

BlockIds == 0 .. (MaxBlocks + 1)

\* The calls a caller makes: a read carries no data, a write carries a
\* payload or, wrongly, none.
Requests ==
    {<<"read", None>>} \cup {<<"write", None>>}
        \cup {<<"write", Some(d)>> : d \in 0..MaxData}

Next ==
    \/ \E num_blocks \in 0..MaxBlocks, cap \in 0..MaxCapacity : New(num_blocks, cap)
    \/ \E rq \in Requests, block_id \in BlockIds : Access(rq[1], block_id, rq[2])

Spec == Init /\ [][Next]_vars

\* ------------------------------------------------ Bucket used on its own
Blocks == {Block(id, d) : id \in 0..MaxBlocks, d \in 0..MaxData}

BlockSeqs == UNION {[1..n -> Blocks] : n \in 0..MaxBucketInput}

BucketCall(call, blocks, result) ==
    [call |-> call, blocks |-> blocks, result |-> result]

BucketInit ==
    /\ AuxIdle
    /\ parallel = TRUE
    /\ status = "uninit"
    /\ tree = << >>
    /\ position_map = EmptyMap
    /\ stash = EmptyMap
    /\ capacity = 0
    /\ tree_height = 0
    /\ last = NoCall
    /\ written = EmptyMap
    /\ last_read = EmptyMap
    /\ bucket \in {BucketNew(cap) : cap \in 0..MaxCapacity}
    /\ bucket_last = BucketCall("new", << >>, "returned")

BucketAdd(block) ==
    /\ bucket_last.result # "panicked"
    /\ IF add_block(bucket, block) = {}
       THEN /\ bucket' = bucket
            /\ bucket_last' = BucketCall("add_block", <<block>>, "panicked")
       ELSE /\ bucket' \in add_block(bucket, block)
            /\ bucket_last' = BucketCall("add_block", <<block>>, "returned")
    /\ UNCHANGED <<oram_vars, aux_vars>>

BucketReplace(new_blocks) ==
    /\ bucket_last.result # "panicked"
    /\ bucket' = replace_blocks(bucket, new_blocks)
    /\ bucket_last' = BucketCall("replace_blocks", new_blocks, "returned")
    /\ UNCHANGED <<oram_vars, aux_vars>>

BucketNext ==
    \/ \E block \in Blocks : BucketAdd(block)
    \/ \E new_blocks \in BlockSeqs : BucketReplace(new_blocks)

BucketSpec == BucketInit /\ [][BucketNext]_vars

\* ------------------------------------------- run_oram_benchmark (bench.rs)
\* The driver reads blocks 1, 2, ... in turn and, after the warm-up, counts
\* the accesses by the stash size they left.  Here the instance is whatever
\* answers oram.stash.len(): each access leaves a size in 0..MaxStash, which
\* is below total_accesses, the length of the vector stash_sizes.
warmup_accesses == WarmupAccesses

total_accesses == MeasuredAccesses + warmup_accesses

\* Lines 33-36: the pairs (i, running_sum) for i = i..len-1, running_sum
\* being lowered by stash_sizes[i] after each push.
RECURSIVE tabulate_from(_, _, _)
tabulate_from(stash_sizes, i, running_sum) ==
    IF i >= Len(stash_sizes) THEN << >>
    ELSE <<<<i, running_sum>>>>
            \o tabulate_from(stash_sizes, i + 1, running_sum - stash_sizes[i + 1])

RECURSIVE SumSeq(_)
SumSeq(q) == IF q = << >> THEN 0 ELSE Head(q) + SumSeq(Tail(q))

\* Mutant: the first line carries total_accesses, warm-up included.
tabulate_total_first(stash_sizes) ==
    <<<<-1, total_accesses>>>> \o tabulate_from(stash_sizes, 0, SumSeq(stash_sizes))

\* Lines 29-36.  stash_sizes[i + 1] here is stash_sizes[i] of the code.
tabulate(stash_sizes) ==
    <<<<-1, total_accesses - warmup_accesses>>>>
        \o tabulate_from(stash_sizes, 0, SumSeq(stash_sizes))

\* Lines 40-44: the lines written, those with a count above 0.
RECURSIVE write_lines(_)
write_lines(pairs) ==
    IF pairs = << >> THEN << >>
    ELSE (IF Head(pairs)[2] > 0 THEN <<Head(pairs)>> ELSE << >>)
            \o write_lines(Tail(pairs))

BenchInit ==
    /\ parallel = TRUE
    /\ status = "uninit"
    /\ tree = << >>
    /\ position_map = EmptyMap
    /\ stash = EmptyMap
    /\ capacity = 0
    /\ tree_height = 0
    /\ last = NoCall
    /\ written = EmptyMap
    /\ last_read = EmptyMap
    /\ bucket = BucketNew(0)
    /\ bucket_last = [call |-> "none", blocks |-> << >>, result |-> "none"]
    /\ inflight = << >>
    /\ index_call = NoIndexCall
    /\ bench = [NoBench EXCEPT !.pc = "loop",
                               !.stash_sizes = [i \in 1..total_accesses |-> 0]]

\* One iteration of the loop of lines 17-26; stash_size is oram.stash.len()
\* after the access.
BenchAccess(stash_size) ==
    /\ bench.pc = "loop"
    /\ bench.access_count < total_accesses
    /\ bench' = IF bench.access_count >= warmup_accesses
                THEN [bench EXCEPT !.access_count = @ + 1,
                                   !.stash_sizes[stash_size + 1] = @ + 1,
                                   !.observed = Append(@, stash_size)]
                ELSE [bench EXCEPT !.access_count = @ + 1]
    /\ UNCHANGED <<oram_vars, bucket_vars, inflight, index_call>>

BenchTabulate ==
    /\ bench.pc = "loop"
    /\ bench.access_count = total_accesses
    /\ bench' = [bench EXCEPT !.pc = "write",
                              !.stash_data = tabulate(bench.stash_sizes)]
    /\ UNCHANGED <<oram_vars, bucket_vars, inflight, index_call>>

BenchWriteFile ==
    /\ bench.pc = "write"
    /\ bench' = [bench EXCEPT !.pc = "done",
                              !.file = write_lines(bench.stash_data)]
    /\ UNCHANGED <<oram_vars, bucket_vars, inflight, index_call>>

BenchNext ==
    \/ \E stash_size \in 0..MaxStash : BenchAccess(stash_size)
    \/ BenchTabulate
    \/ BenchWriteFile

BenchSpec == BenchInit /\ [][BenchNext]_vars

\* ------------------------------------- get_bucket_index called on its own
IndexInit ==
    /\ parallel = TRUE
    /\ status = "uninit"
    /\ tree = << >>
    /\ position_map = EmptyMap
    /\ stash = EmptyMap
    /\ capacity = 0
    /\ tree_height = 0
    /\ last = NoCall
    /\ written = EmptyMap
    /\ last_read = EmptyMap
    /\ bucket = BucketNew(0)
    /\ bucket_last = [call |-> "none", blocks |-> << >>, result |-> "none"]
    /\ bench = NoBench
    /\ inflight = << >>
    /\ index_call = NoIndexCall

\* The call made by access on an instance of the given height: a leaf of
\* the tree and a level from the root (0) to the leaves (height).
GetBucketIndex(height, leaf, level) ==
    /\ index_call' = [height |-> height, leaf |-> leaf, level |-> level,
                      index |-> get_bucket_index([tree_height |-> height],
                                                 leaf, level),
                      called |-> TRUE]
    /\ UNCHANGED <<oram_vars, bucket_vars, bench, inflight>>

IndexNext ==
    \E height \in 0..MaxHeight :
        \E leaf \in Leaves(height), level \in 0..height :
            GetBucketIndex(height, leaf, level)

IndexSpec == IndexInit /\ [][IndexNext]_vars

\* ------------------------------------------- access run phase by phase
\* access is one call on &mut self.  Here its three phases are separate
\* steps, taken by two callers on one instance with no lock around the
\* call: the read of the path (lines 64-76), the update of the stash and of
\* the position map (lines 81-92), the write-back (lines 94-123).  A caller
\* may also stop after any phase.
Callers == {1, 2}

NoAccess ==
    [pc |-> "idle", op |-> "none", block_id |-> 0, new_data |-> None,
     old_position |-> 0, new_position |-> 0, data |-> None, found |-> {},
     count |-> 0]

\* The real blocks held by the buckets of the path of a leaf.
OnPath(o, leaf) ==
    UNION {DOMAIN o.tree[get_bucket_index(o, leaf, level)].blocks \ {0} :
              level \in 0..o.tree_height}

StepInit ==
    /\ parallel = TRUE
    /\ status = "ready"
    /\ \E num_blocks \in 1..MaxBlocks, cap \in 1..MaxCapacity :
          \E out \in new(TRUE, num_blocks, cap) :
              /\ out.result = "returned"
              /\ tree = out.oram.tree
              /\ position_map = out.oram.position_map
              /\ stash = out.oram.stash
              /\ capacity = out.oram.capacity
              /\ tree_height = out.oram.tree_height
              /\ last = [NoCall EXCEPT !.call = "new",
                                       !.num_blocks = num_blocks,
                                       !.capacity = cap,
                                       !.result = "returned"]
              /\ written = [id \in 1..num_blocks |-> 0]
              /\ last_read = [id \in 1..num_blocks |-> None]
    /\ bucket = BucketNew(0)
    /\ bucket_last = [call |-> "none", blocks |-> << >>, result |-> "none"]
    /\ bench = NoBench
    /\ index_call = NoIndexCall
    /\ inflight = [calls |-> [c \in Callers |-> NoAccess], overlapped |-> FALSE]

\* Steps 1 and 2: the leaves are fixed and the path is read into the stash.
StepRead(c, op, block_id, new_data) ==
    /\ inflight.calls[c].pc = "idle"
    /\ inflight.calls[c].count < MaxCalls
    /\ block_id \in DOMAIN position_map
    /\ \E new_position \in Leaves(tree_height) :
          LET old_position == position_map[block_id]
              r1 == read_path(Run(Instance, << >>), old_position, 0)
          IN  /\ tree' = r1.oram.tree
              /\ stash' = r1.oram.stash
              /\ inflight' =
                    [calls |-> [inflight.calls EXCEPT ![c] =
                          [pc |-> "read_done", op |-> op,
                           block_id |-> block_id, new_data |-> new_data,
                           old_position |-> old_position,
                           new_position |-> new_position, data |-> None,
                           found |-> OnPath(Instance, old_position),
                           count |-> inflight.calls[c].count + 1]],
                     overlapped |-> inflight.overlapped
                          \/ \E d \in Callers \ {c} : inflight.calls[d].pc # "idle"]
    /\ UNCHANGED <<parallel, status, position_map, capacity, tree_height,
                   last, written, last_read, bucket_vars, bench, index_call>>

\* Step 3 and the insert of the new leaf in the position map.
StepUpdate(c) ==
    /\ inflight.calls[c].pc = "read_done"
    /\ LET me    == inflight.calls[c]
           step3 == retrieve_or_update(stash, me.op, me.block_id, me.new_data)
       IN  /\ stash' = step3.stash
           /\ position_map' = MapInsert(position_map, me.block_id, me.new_position)
           /\ inflight' = [inflight EXCEPT !.calls[c].pc = "updated",
                                           !.calls[c].data = step3.data]
    /\ UNCHANGED <<parallel, status, tree, capacity, tree_height, last, written,
                   last_read, bucket_vars, bench, index_call>>

\* Step 4, the write-back of the path of old_position, and the return.
StepWriteBack(c) ==
    /\ inflight.calls[c].pc = "updated"
    /\ \E r3 \in write_back(Run(Instance, << >>),
                            inflight.calls[c].old_position, tree_height) :
          /\ tree' = r3.oram.tree
          /\ stash' = r3.oram.stash
    /\ inflight' = [inflight EXCEPT !.calls[c].pc = "idle"]
    /\ UNCHANGED <<parallel, status, position_map, capacity, tree_height, last,
                   written, last_read, bucket_vars, bench, index_call>>

StepNext ==
    \/ \E c \in Callers, rq \in Requests, block_id \in BlockIds :
          /\ rq[1] = "write" => rq[2] # None
          /\ StepRead(c, rq[1], block_id, rq[2])
    \/ \E c \in Callers : StepUpdate(c)
    \/ \E c \in Callers : StepWriteBack(c)

StepSpec == StepInit /\ [][StepNext]_vars

\* ------------------------------------------------------------- properties
\* The last call was an access that returned to its caller.
Returned ==
    status = "ready" /\ last.call = "access" /\ last.result = "returned"

\* The instance was built with the arguments the interface admits.
ValidConfig == last.num_blocks >= 1 /\ last.capacity >= 1

RealIds == 1 .. last.num_blocks

\* The root-to-leaf path of a leaf, from the heap layout alone: the leaf's
\* bucket is 2^L - 1 + leaf and the parent of bucket i is (i - 1) \div 2.
RECURSIVE Ancestors(_)
Ancestors(i) == IF i = 0 THEN <<0>> ELSE Append(Ancestors((i - 1) \div 2), i)

PathOf(leaf) == Ancestors(2^tree_height - 1 + leaf)

Reverse(s) == [i \in 1..Len(s) |-> s[Len(s) + 1 - i]]

PathSet(leaf) == {PathOf(leaf)[i] : i \in 1..Len(PathOf(leaf))}

\* Where a block id is held: the indices of the buckets, and -1 for the stash.
Held(block_id) ==
    (IF block_id \in DOMAIN stash THEN {-1} ELSE {})
        \cup {i \in DOMAIN tree : block_id \in DOMAIN tree[i].blocks}

RealCount(blocks) == Cardinality({i \in 1..Len(blocks) : blocks[i].block_id # 0})

\* C1: on an instance built with N >= 1 and Z >= 1, a Read(id) returns the
\* payload of the most recent Write(id) before it (the bootstrap write of 0
\* if there was no other), whatever accesses to other ids came in between.
C1_RoundTrip ==
    (Returned /\ ValidConfig /\ last.op = "read")
        => last.data = Some(written[last.block_id])

\* A read of a block returns a payload written after construction, while
\* another block has been written after construction too.
C1_Witness ==
    /\ Returned /\ ValidConfig /\ last.op = "read"
    /\ last.data = Some(MaxData)
    /\ \E j \in DOMAIN written : j # last.block_id /\ written[j] # 0
    /\ stash # EmptyMap

\* C2: after construction and after every completed access on an instance
\* built with N >= 1 and Z >= 1, every id in 1..N is held exactly once: in
\* the stash, or in one bucket on the path of its position-map leaf.
C2_Placement ==
    (status = "ready" /\ ValidConfig) =>
        \A id \in RealIds :
            /\ id \in DOMAIN position_map
            /\ Cardinality(Held(id)) = 1
            /\ \A h \in Held(id) :
                  h = -1 \/ h \in PathSet(position_map[id])

\* After an access, one block is in the stash and another in a bucket.
C2_Witness ==
    /\ Returned /\ ValidConfig
    /\ stash # EmptyMap
    /\ \E id \in RealIds : \E h \in Held(id) : h >= 0

\* C3: after the write-back of an access every bucket of the rewritten path
\* holds exactly Z slots, dummies counted one by one.
C3_BucketFill ==
    Returned =>
        \A i \in PathSet(last.old_position) :
            Cardinality(DOMAIN tree[i].blocks) = capacity

\* C4: an access with id = 0 or id > numBlocks fails with UnknownBlock, a
\* failure handed to the caller, which keeps running.
C4_UnknownBlock ==
    (last.call = "access" /\ last.block_id \notin RealIds)
        => (last.result = "UnknownBlock" /\ status = "ready")

\* C5: new(numBlocks, bucketCapacity) with numBlocks = 0 or
\* bucketCapacity = 0 fails with InvalidConfiguration and leaves no instance.
C5_InvalidConfiguration ==
    (last.call = "new" /\ (last.num_blocks = 0 \/ last.capacity = 0))
        => (last.result = "InvalidConfiguration" /\ status # "ready")

\* C6: when new(N, Z) returns with N >= 1 and Z >= 1, the tree has
\* 2^(L+1)-1 buckets with L = ceil(log2 N), a bucket with fewer than Z real
\* blocks holds dummy filler, every id in 1..N has a leaf in [0, 2^L), every
\* id is held once with payload 0, and a Read of any id returns 0.
C6_Bootstrap ==
    (status = "ready" /\ last.call = "new" /\ ValidConfig) =>
        /\ 2^tree_height >= last.num_blocks
        /\ tree_height = 0 \/ 2^(tree_height - 1) < last.num_blocks
        /\ DOMAIN tree = 0 .. (2^(tree_height + 1) - 2)
        /\ \A i \in DOMAIN tree :
              Cardinality(DOMAIN tree[i].blocks \ {0}) < capacity
                  => 0 \in DOMAIN tree[i].blocks
        /\ DOMAIN position_map = RealIds
        /\ \A id \in RealIds :
              /\ position_map[id] \in 0 .. (2^tree_height - 1)
              /\ Cardinality(Held(id)) = 1
              /\ Stored(Instance, id) = Some(0)
              /\ \A out \in access(Instance, "read", id, None) :
                    out.result = "returned" /\ out.data = Some(0)

\* new returned an instance of the largest size whose bootstrap writes left
\* a block in the stash.
C6_Witness ==
    /\ status = "ready" /\ last.call = "new" /\ ValidConfig
    /\ last.num_blocks = MaxBlocks
    /\ stash # EmptyMap

\* C7: on an instance built with N >= 1 and Z >= 1, access returns the
\* payload the block held before the access; after a Write(id, d) the block
\* holds d, after a Read it holds what it held.
C7_ReturnsPrevious ==
    (Returned /\ ValidConfig) =>
        /\ last.before # None
        /\ last.data = last.before
        /\ Stored(Instance, last.block_id) =
              (IF last.op = "write" THEN last.new_data ELSE last.before)

\* A write replaced a payload by a different one and returned the old one.
C7_Witness ==
    /\ Returned /\ ValidConfig /\ last.op = "write"
    /\ last.before = Some(MaxData)
    /\ last.new_data = Some(0)
    /\ last.data = Some(MaxData)

\* C8: on an instance built with N >= 1 and Z >= 1, a Read(id) returns what
\* the previous Read(id) returned when no Write(id) came in between,
\* whatever leaves the two accesses drew.
C8_IdempotentRead ==
    (Returned /\ ValidConfig /\ last.op = "read" /\ last.prev_read # None)
        => last.data = last.prev_read

\* The second of two reads of a block returned the same written payload, and
\* it moved the block to another leaf.
C8_Witness ==
    /\ Returned /\ ValidConfig /\ last.op = "read"
    /\ last.prev_read = Some(MaxData)
    /\ last.data = Some(MaxData)
    /\ position_map[last.block_id] # last.old_position

\* C9: Bucket::replace_blocks given more real blocks than the capacity fails
\* with a configuration error, and a call that returns has kept every real
\* block it was given.
C9_ReplaceRejectsOverfull ==
    bucket_last.call = "replace_blocks" =>
        /\ RealCount(bucket_last.blocks) > bucket.capacity
              => bucket_last.result = "InvalidConfiguration"
        /\ bucket_last.result = "returned" =>
              \A i \in 1..Len(bucket_last.blocks) :
                  bucket_last.blocks[i].block_id # 0
                      => bucket_last.blocks[i].block_id \in DOMAIN bucket.blocks

\* C10: an access touches the buckets of the path of the requested id's
\* pre-access leaf, each read once from the root down and then each
\* rewritten once from the leaf up, and nothing else: the sequence depends
\* on that leaf alone, not on op, data, stash or the blocks found.
C10_Oblivious ==
    Returned =>
        last.touched =
            [i \in 1..(tree_height + 1) |-> <<"read", PathOf(last.old_position)[i]>>]
            \o [i \in 1..(tree_height + 1) |->
                   <<"write", Reverse(PathOf(last.old_position))[i]>>]

\* A write on a tree of height 1 left a block in the stash and touched the
\* two buckets of leaf 1 twice.
C10_Witness ==
    /\ Returned /\ last.op = "write"
    /\ tree_height = 1 /\ last.old_position = 1
    /\ stash # EmptyMap
    /\ Len(last.touched) = 4

\* The measured accesses that left a stash size for which P holds.
MeasuredCount(P(_)) ==
    Cardinality({k \in 1..Len(bench.observed) : P(bench.observed[k])})

\* C11: every line R >= 0 of the file carries the number of measured
\* accesses whose stash size was strictly greater than R.
C11_CountStrictlyGreater ==
    bench.pc = "done" =>
        \A n \in 1..Len(bench.file) :
            bench.file[n][1] >= 0 =>
                bench.file[n][2] =
                    MeasuredCount(LAMBDA size : size > bench.file[n][1])

\* C12: the counts of the file do not increase from one line to the next,
\* the lines come in increasing R, and the first line is R = -1 with the
\* number of measured accesses.
C12_MeasurementSanity ==
    bench.pc = "done" =>
        /\ Len(bench.file) >= 1
        /\ bench.file[1] = <<-1, Len(bench.observed)>>
        /\ Len(bench.observed) = MeasuredAccesses
        /\ \A n \in 1..(Len(bench.file) - 1) :
              /\ bench.file[n][1] < bench.file[n + 1][1]
              /\ bench.file[n][2] >= bench.file[n + 1][2]

\* A file of several lines whose counts do decrease, from measured accesses
\* that left different stash sizes.
C12_Witness ==
    /\ bench.pc = "done"
    /\ Len(bench.file) >= 3
    /\ bench.file[Len(bench.file)][2] < bench.file[1][2]
    /\ \E j, k \in 1..Len(bench.observed) : bench.observed[j] # bench.observed[k]

\* The real (non-dummy) blocks of bucket i.
RealIn(i) == DOMAIN tree[i].blocks \ {0}

\* C13: after an access, for every block left in the stash, every bucket of
\* the accessed path that is also on the path of the block's leaf holds Z
\* real blocks; so when the stash is not empty the root holds Z real blocks.
C13_GreedyEviction ==
    Returned =>
        /\ \A k \in DOMAIN stash :
              \A i \in PathSet(last.old_position) \cap PathSet(position_map[k]) :
                  Cardinality(RealIn(i)) = capacity
        /\ stash # EmptyMap => Cardinality(RealIn(0)) = capacity

\* An access on a tree of height 1 left a block in the stash, the root
\* being full, while the leaf bucket of the accessed path is not.
C13_Witness ==
    /\ Returned /\ ValidConfig
    /\ tree_height = 1
    /\ stash # EmptyMap
    /\ Cardinality(RealIn(0)) = capacity
    /\ \E i \in PathSet(last.old_position) : Cardinality(RealIn(i)) < capacity

\* C14: the eviction of an access sees the new leaf of the accessed id: on
\* an instance built with N >= 1 and Z >= 1, after the access the block is
\* in the stash or in a bucket that lies on the path of the old leaf and on
\* the path of the new leaf, the one the position map now holds.
C14_EvictionSeesNewLeaf ==
    (Returned /\ ValidConfig) =>
        /\ Held(last.block_id) # {}
        /\ \A h \in Held(last.block_id) :
              \/ h = -1
              \/ h \in PathSet(last.old_position)
                         \cap PathSet(position_map[last.block_id])

\* The access drew a leaf other than the old one, and the block went to the
\* only bucket the two paths share, the root.
C14_Witness ==
    /\ Returned /\ ValidConfig
    /\ tree_height = 1
    /\ position_map[last.block_id] # last.old_position
    /\ Held(last.block_id) = {0}

\* C15: the position map only ever holds leaves of [0, 2^L), and from every
\* state, whatever leaf an id has, an access to the id can leave it on any
\* leaf of [0, 2^L).
C15_Rerandomization ==
    status = "ready" =>
        \A id \in DOMAIN position_map :
            /\ position_map[id] \in 0 .. (2^tree_height - 1)
            /\ {out.oram.position_map[id] :
                   out \in {x \in access(Instance, "read", id, None) :
                               x.result = "returned"}}
                  = 0 .. (2^tree_height - 1)

\* An access on a tree with two leaves moved its block from leaf 1 to leaf 0.
C15_Witness ==
    /\ Returned
    /\ tree_height = 1
    /\ last.old_position = 1
    /\ position_map[last.block_id] = 0

\* The calls the interface admits: a read, or a write with its data.
ValidRequests == {rq \in Requests : rq[1] = "write" => rq[2] # None}

\* C16: on an instance built with N >= 1 and Z >= 1, from every state, an
\* access with an id in 1..N, a Read or a Write with its data, has an
\* outcome for every leaf draw, and every outcome returns a value.
C16_Totality ==
    (status = "ready" /\ ValidConfig) =>
        \A id \in RealIds, rq \in ValidRequests :
            /\ \A leaf \in 0 .. (2^tree_height - 1) :
                  \E out \in access(Instance, rq[1], id, rq[2]) :
                      out.oram.position_map[id] = leaf
            /\ \A out \in access(Instance, rq[1], id, rq[2]) :
                  out.result = "returned" /\ out.data # None

\* A repeated read returned a value on buckets of capacity 1 and left a
\* block in the stash.
C16_Witness ==
    /\ Returned /\ ValidConfig
    /\ last.num_blocks = MaxBlocks /\ capacity = 1
    /\ last.prev_read # None
    /\ last.data # None
    /\ stash # EmptyMap

\* C17: for a leaf x of [0, 2^L) and a level lvl of [0, L], the index is
\* (2^lvl - 1) + (x >> (L - lvl)), a bucket of [0, 2^(L+1) - 1); it is the
\* root 0 at level 0 and 2^L - 1 + x at level L, and the index at lvl + 1
\* is a heap child, 2i + 1 or 2i + 2, of the index i at lvl.
C17_PathIndexing ==
    index_call.called =>
        LET L   == index_call.height
            x   == index_call.leaf
            lvl == index_call.level
            i   == index_call.index
        IN  /\ i = (2^lvl - 1) + (x \div 2^(L - lvl))
            /\ 0 <= i /\ i < 2^(L + 1) - 1
            /\ lvl = 0 => i = 0
            /\ lvl = L => i = 2^L - 1 + x
            /\ lvl < L =>
                  get_bucket_index([tree_height |-> L], x, lvl + 1)
                      \in {2 * i + 1, 2 * i + 2}
            /\ i = Ancestors(2^L - 1 + x)[lvl + 1]

\* The index of an inner level for the last leaf of the tallest tree.
C17_Witness ==
    /\ index_call.called
    /\ index_call.height = MaxHeight
    /\ index_call.leaf = 2^MaxHeight - 1
    /\ index_call.level = 2
    /\ index_call.index = 6

\* C18: the eviction picks its blocks in a fixed order: on an instance
\* built with N >= 1 and Z >= 1, an access with a given op, id, data and
\* new-leaf draw has one outcome, one stash and one tree.
C18_DeterministicEviction ==
    (status = "ready" /\ ValidConfig) =>
        \A id \in RealIds, rq \in ValidRequests :
            \A leaf \in 0 .. (2^tree_height - 1) :
                Cardinality({out \in access(Instance, rq[1], id, rq[2]) :
                                out.oram.position_map[id] = leaf}) <= 1

\* C19: an access that returns changes no bucket off the path of the
\* pre-access leaf of its id, no position-map entry of another id, and not
\* the capacity or the height; a Read changes the payload of no block.
C19_Frame ==
    [][(status = "ready" /\ status' = "ready") =>
          /\ DOMAIN tree' = DOMAIN tree
          /\ \A i \in DOMAIN tree :
                i \notin PathSet(position_map[last'.block_id])
                    => tree'[i] = tree[i]
          /\ DOMAIN position_map' = DOMAIN position_map
          /\ \A j \in DOMAIN position_map :
                j # last'.block_id => position_map'[j] = position_map[j]
          /\ capacity' = capacity
          /\ tree_height' = tree_height
          /\ last'.op = "read" =>
                \A id \in DOMAIN position_map :
                    Stored(Instance', id) = Stored(Instance, id)
      ]_vars

\* A read of a block that holds a written payload, on a tree of height 1,
\* while the bucket off its path holds a real block.
C19_Witness ==
    /\ Returned /\ ValidConfig /\ last.op = "read"
    /\ tree_height = 1
    /\ last.before # Some(0)
    /\ \E i \in DOMAIN tree :
          i \notin PathSet(last.old_position) /\ RealIn(i) # {}

\* Every id of 1..N is held exactly once, in the stash or in a bucket on
\* the path of its leaf.
Placed ==
    \A id \in RealIds :
        /\ Cardinality(Held(id)) = 1
        /\ \A h \in Held(id) : h = -1 \/ h \in PathSet(position_map[id])

\* C20: access is correct only as a whole.  An access that has read its
\* path and not yet written it back, no other access having run alongside,
\* leaves every real block it found on the path held twice, in the stash
\* and in its bucket: stopping there breaks the placement invariant.  And
\* when the phases of two accesses interleave, a state with both accesses
\* returned and the placement invariant broken is reachable.
C20_NotAtomic ==
    \A c \in Callers :
        \A me \in {inflight.calls[c]} :
            (me.pc \in {"read_done", "updated"} /\ ~inflight.overlapped)
                => /\ \A id \in me.found : Cardinality(Held(id)) >= 2
                   /\ me.found # {} => ~Placed

\* Two accesses whose phases interleaved have both returned, and a block is
\* held twice or not at all.
C20_Witness ==
    /\ inflight.overlapped
    /\ \A c \in Callers : inflight.calls[c].pc = "idle"
    /\ ~Placed

====
